---- MODULE Spec2Model ----
(***************************************************************************)
(* poetry2uv: the version-constraint translator of                         *)
(* src/poetry2uv/convert_poetry_to_uv.py (PyProject.convert_version_entry, *)
(* convert_version_constraint, increment_version, version_pattern).        *)
(*                                                                         *)
(* A Python str is modelled as a sequence of one-character strings, so     *)
(* that the regular expression, str.split, int() and str() are computed    *)
(* character by character as Python computes them.                         *)
(***************************************************************************)
EXTENDS Integers, Sequences, FiniteSets, TLC

\* The translator: one call of convert_version_entry.
VARIABLES entry, pc, groups, parts, result

\* The conversion: one call of convert_to_pep508.
VARIABLES cpc, error, python_entry, python_version, sources, deps, dev_deps,
          optional_deps, members, table, cur_deps, cur_members, group_name,
          group_inputs, n_entries, n_removed, completed, written,
          pinned_written, out_doc

transVars == <<entry, pc, groups, parts, result>>

convVars ==
    <<cpc, error, python_entry, python_version, sources, deps, dev_deps,
      optional_deps, members, table, cur_deps, cur_members, group_name,
      group_inputs, n_entries, n_removed, completed, written,
      pinned_written, out_doc>>

vars == <<transVars, convVars>>

(***************************************************************************)
(* Bounds of the model.                                                    *)
(***************************************************************************)
MaxComponents == 3

MaxGroups == 2

\* Dependency entries read in one conversion, over all its tables.
MaxEntries == 2

\* Entries of remove_entries.
MaxRemoveEntries == 1

(***************************************************************************)
(* Characters.                                                             *)
(***************************************************************************)
Digits == {"0", "1", "2", "3", "4", "5", "6", "7", "8", "9"}

\* The ASCII characters of the inputs that the regex class \w does not match.
NonWordChars == {".", "*", "-", "+", "^", "~", "=", "<", ">", "!", ",", " "}

\* re: \d
IsDigit(c) == c \in Digits

\* re: \w
IsWordChar(c) == c \notin NonWordChars

\* re: [=^~]
SymbolChars == {"=", "^", "~"}

IsSymbolChar(c) == c \in SymbolChars

\* re: [\d.*]
NumberChars == Digits \cup {".", "*"}

IsNumberChar(c) == c \in NumberChars

DigitVal(c) ==
    CASE c = "0" -> 0 [] c = "1" -> 1 [] c = "2" -> 2 [] c = "3" -> 3
      [] c = "4" -> 4 [] c = "5" -> 5 [] c = "6" -> 6 [] c = "7" -> 7
      [] c = "8" -> 8 [] c = "9" -> 9

DigitChar(d) ==
    CASE d = 0 -> "0" [] d = 1 -> "1" [] d = 2 -> "2" [] d = 3 -> "3"
      [] d = 4 -> "4" [] d = 5 -> "5" [] d = 6 -> "6" [] d = 7 -> "7"
      [] d = 8 -> "8" [] d = 9 -> "9"

(***************************************************************************)
(* Python built-ins used by the translator.                                *)
(***************************************************************************)

\* str.split(sep) for a one-character separator: empty pieces are kept.
RECURSIVE Split(_, _)
Split(s, sep) ==
    IF \E i \in 1..Len(s) : s[i] = sep
    THEN LET i == CHOOSE i \in 1..Len(s) :
                     s[i] = sep /\ \A j \in 1..(i - 1) : s[j] # sep
         IN  <<SubSeq(s, 1, i - 1)>> \o Split(SubSeq(s, i + 1, Len(s)), sep)
    ELSE <<s>>

\* sep.join(pieces)
RECURSIVE Join(_, _)
Join(pieces, sep) ==
    IF pieces = <<>> THEN <<>>
    ELSE IF Len(pieces) = 1 THEN pieces[1]
    ELSE pieces[1] \o <<sep>> \o Join(Tail(pieces), sep)

\* "c in s"
Contains(s, c) == \E i \in 1..Len(s) : s[i] = c

\* s.startswith(c)
StartsWith(s, c) == Len(s) >= 1 /\ s[1] = c

\* The text int() reads after an optional sign.
IntBody(s) == IF Len(s) >= 1 /\ s[1] \in {"-", "+"} THEN Tail(s) ELSE s

\* Whether int(s) returns: an optional sign, then digits, single underscores
\* allowed between two digits. (Surrounding whitespace, which int() also
\* accepts, cannot occur in a text version_pattern has matched.)
IntValid(s) ==
    LET b == IntBody(s)
    IN  /\ b # <<>>
        /\ \A i \in 1..Len(b) :
              \/ IsDigit(b[i])
              \/ /\ b[i] = "_"
                 /\ 1 < i /\ i < Len(b)
                 /\ IsDigit(b[i - 1]) /\ IsDigit(b[i + 1])

RECURSIVE DigitsValue(_)
DigitsValue(b) ==
    IF b = <<>> THEN 0
    ELSE LET last == b[Len(b)]
             front == SubSeq(b, 1, Len(b) - 1)
         IN  IF last = "_" THEN DigitsValue(front)
             ELSE 10 * DigitsValue(front) + DigitVal(last)

\* int(s), for IntValid(s)
IntOf(s) ==
    IF StartsWith(s, "-") THEN 0 - DigitsValue(IntBody(s))
    ELSE DigitsValue(IntBody(s))

RECURSIVE NatToStr(_)
NatToStr(n) ==
    IF n < 10 THEN <<DigitChar(n)>>
    ELSE NatToStr(n \div 10) \o <<DigitChar(n % 10)>>

\* str(n)
IntToStr(n) == IF n < 0 THEN <<"-">> \o NatToStr(0 - n) ELSE NatToStr(n)

(***************************************************************************)
(* Results of a call: a returned str, or a raised ValueError with the      *)
(* message's kind and the text the message quotes.                         *)
(***************************************************************************)
NoResult == [kind |-> "none", err |-> "", val |-> <<>>]

Ok(s) == [kind |-> "ok", err |-> "", val |-> s]

\* ValueError(f"Invalid version constraint: {version_constraint}")
InvalidConstraint(s) == [kind |-> "error", err |-> "InvalidConstraint", val |-> s]

\* int()'s ValueError("invalid literal for int() with base 10: '<s>'")
InvalidLiteral(s) == [kind |-> "error", err |-> "InvalidLiteral", val |-> s]

(***************************************************************************)
(* PyProject.version_pattern:                                              *)
(*     ^([=^~]{0,2})([\d.*]+(?:-\w+(?:\.\d)?)?)                            *)
(* applied with re.match: a match of a prefix of the text.                 *)
(***************************************************************************)
Max(S) == CHOOSE x \in S : \A y \in S : y <= x

Min2(a, b) == IF a <= b THEN a ELSE b

\* The length of the longest run, starting at position from (1-based) of s,
\* of characters c with (c \in chars) = member: what a greedy character
\* class ([...]* for member TRUE, [^...]* for member FALSE) consumes there.
RunLength(s, from, chars, member) ==
    CHOOSE n \in 0..(Len(s) - from + 1) :
        /\ \A i \in from..(from + n - 1) : (s[i] \in chars) = member
        /\ (from + n > Len(s) \/ (s[from + n] \in chars) # member)

\* Group 1, [=^~]{0,2}: the greedy quantifier takes up to two symbol
\* characters and gives them back one by one until [\d.*]+ can start.
\* The set of lengths of group 1 with which the rest of the pattern matches.
SymbolLengths(s) ==
    {k \in 0..Min2(RunLength(s, 1, SymbolChars, TRUE), 2) :
        k < Len(s) /\ IsNumberChar(s[k + 1])}

\* The end (1-based, inclusive) of group 2 when it starts at position from:
\* [\d.*]+ takes the whole run; then, if a "-" and at least one \w follow,
\* -\w+ takes the whole run of \w, and (?:\.\d)? takes one "." and ONE digit.
NumbersEnd(s, from) ==
    LET p == from + RunLength(s, from, NumberChars, TRUE)
        hasTag == p + 1 <= Len(s) /\ s[p] = "-" /\ IsWordChar(s[p + 1])
        q == p + 1 + RunLength(s, p + 1, NonWordChars, FALSE)
        hasDot == q + 1 <= Len(s) /\ s[q] = "." /\ IsDigit(s[q + 1])
    IN  IF ~hasTag THEN p - 1
        ELSE IF hasDot THEN q + 1
        ELSE q - 1

\* version_pattern.match(s): whether it matched, match.group(1), match.group(2)
VersionPatternMatch(s) ==
    IF SymbolLengths(s) = {}
    THEN [matched |-> FALSE, symbols |-> <<>>, numbers |-> <<>>]
    ELSE LET k == Max(SymbolLengths(s))
         IN  [matched |-> TRUE,
              symbols |-> SubSeq(s, 1, k),
              numbers |-> SubSeq(s, k + 1, NumbersEnd(s, k + 1))]

(***************************************************************************)
(* i_nonzero = next((i for i, value in enumerate(split_numbers)            *)
(*                   if int(value) != 0), -1)                              *)
(* The generator calls int() on the components in order and stops at the   *)
(* first non-zero one; an int() that fails before that raises.  Indices    *)
(* are Python's (0-based); -1 when every component is zero.                *)
(***************************************************************************)
RECURSIVE FirstNonzeroFrom(_, _)
FirstNonzeroFrom(split_numbers, i) ==
    IF i >= Len(split_numbers)
    THEN [raised |-> FALSE, idx |-> -1, lit |-> <<>>]
    ELSE IF ~IntValid(split_numbers[i + 1])
    THEN [raised |-> TRUE, idx |-> -1, lit |-> split_numbers[i + 1]]
    ELSE IF IntOf(split_numbers[i + 1]) # 0
    THEN [raised |-> FALSE, idx |-> i, lit |-> <<>>]
    ELSE FirstNonzeroFrom(split_numbers, i + 1)

FirstNonzero(split_numbers) == FirstNonzeroFrom(split_numbers, 0)

(***************************************************************************)
(* PyProject.increment_version(version_split, increment_index)             *)
(***************************************************************************)

\* The 1-based position of Python's version_split[i] (i may be negative).
Pos(version_split, i) == IF i < 0 THEN Len(version_split) + i + 1 ELSE i + 1

\* for i in range(increment_index + 1, len(version_split)): version_split[i] = "0"
ZeroAfter(version_split, increment_index) ==
    [p \in 1..Len(version_split) |->
        IF p >= increment_index + 2 THEN <<"0">> ELSE version_split[p]]

\* The new text of the component at increment_index, or the literal whose
\* int() raised.
IncrementedComponent(version_split, increment_index) ==
    LET comp == version_split[Pos(version_split, increment_index)]
    IN  IF increment_index = 2 /\ Contains(comp, "-")
        THEN LET pre_release_split == Split(comp, "-")
                 n == Len(pre_release_split)
                 tail == pre_release_split[n]
             IN  IF ~IntValid(tail)
                 THEN [raised |-> TRUE, lit |-> tail, text |-> <<>>]
                 ELSE [raised |-> FALSE, lit |-> <<>>,
                       text |-> Join([pre_release_split EXCEPT
                                        ![n] = IntToStr(IntOf(tail) + 1)], "-")]
        ELSE IF ~IntValid(comp)
        THEN [raised |-> TRUE, lit |-> comp, text |-> <<>>]
        ELSE [raised |-> FALSE, lit |-> <<>>, text |-> IntToStr(IntOf(comp) + 1)]

\* The list after the call (it is changed in place), or the raised error.
IncrementVersion(version_split, increment_index) ==
    LET inc == IncrementedComponent(version_split, increment_index)
    IN  IF inc.raised
        THEN [raised |-> TRUE, lit |-> inc.lit, split |-> version_split]
        ELSE [raised |-> FALSE, lit |-> <<>>,
              split |-> ZeroAfter(
                  [version_split EXCEPT
                      ![Pos(version_split, increment_index)] = inc.text],
                  increment_index)]

(***************************************************************************)
(* PyProject.convert_version_constraint(version_constraint)                *)
(***************************************************************************)

\* A caret upper bound that keeps the components after i_nonzero.
CaretUpperNotTruncated(split_numbers, i_nonzero) == Join(split_numbers, ".")

\* '.'.join(map(str, split_numbers[: i_nonzero + 1]))
CaretUpper(split_numbers, i_nonzero) ==
    Join(SubSeq(split_numbers, 1, i_nonzero + 1), ".")

\* The "^" branch.
CaretBranch(numbers, split_numbers, i_nonzero) ==
    LET inc == IncrementVersion(split_numbers, i_nonzero)
    IN  IF inc.raised THEN InvalidLiteral(inc.lit)
        ELSE Ok(<<">", "=">> \o numbers \o <<",", "<">>
                \o CaretUpper(inc.split, i_nonzero))

\* The index the "~" branch increments: 1 when
\* len(split_numbers) >= 3 and i_nonzero < 2, else len(split_numbers) - 1.
TildeIncrementIndex(split_numbers, i_nonzero) ==
    IF Len(split_numbers) >= 3 /\ i_nonzero < 2 THEN 1
    ELSE Len(split_numbers) - 1

\* The "~" branch. (split_numbers[2] = "0" follows increment_version(.., 1),
\* which has already set every component after index 1 to "0".)
TildeBranch(numbers, split_numbers, i_nonzero) ==
    LET idx == TildeIncrementIndex(split_numbers, i_nonzero)
        inc == IncrementVersion(split_numbers, idx)
    IN  IF inc.raised THEN InvalidLiteral(inc.lit)
        ELSE LET after == IF Len(split_numbers) >= 3 /\ i_nonzero < 2
                          THEN [inc.split EXCEPT ![3] = <<"0">>]
                          ELSE inc.split
             IN  Ok(<<">", "=">> \o numbers \o <<",", "<">> \o Join(after, "."))

\* The branches on match.group(1), once i_nonzero is known.
Dispatch(symbols, numbers, split_numbers, i_nonzero) ==
    IF symbols \in {<<>>, <<"=">>} THEN Ok(<<"=", "=">> \o numbers)
    ELSE IF symbols = <<"^">> THEN CaretBranch(numbers, split_numbers, i_nonzero)
    ELSE IF symbols = <<"~">> THEN TildeBranch(numbers, split_numbers, i_nonzero)
    ELSE Ok(symbols \o numbers)

ConvertVersionConstraint(version_constraint) ==
    LET match == VersionPatternMatch(version_constraint)
    IN  IF match.matched
        THEN LET split_numbers == Split(match.numbers, ".")
                 nz == FirstNonzero(split_numbers)
             IN  IF nz.raised THEN InvalidLiteral(nz.lit)
                 ELSE Dispatch(match.symbols, match.numbers, split_numbers, nz.idx)
        ELSE IF StartsWith(version_constraint, "~")
                \/ StartsWith(version_constraint, "^")
        THEN InvalidConstraint(version_constraint)
        ELSE Ok(version_constraint)

(***************************************************************************)
(* The inputs: version entries built from an operator symbol, up to        *)
(* MaxComponents dot-separated components and a suffix, and comma lists of *)
(* up to MaxGroups sub-constraints.                                        *)
(***************************************************************************)
SymbolSet ==
    { <<>>, <<"=">>, <<"^">>, <<"~">>, <<"=", "=">>,
      <<"^", "^">>, <<"^", "=">>, <<"=", "~">>, <<"^", "^", "^">>,
      <<">", "=">>, <<"!", "=">>, <<"<">> }

ComponentSet == { <<"0">>, <<"1">>, <<"9">>, <<"*">>, <<"a">> }

SuffixSet ==
    { <<>>,
      <<"-", "a">>,                       \* -a
      <<"-", "a", ".", "2">>,             \* -a.2
      <<"-", "a", ".", "2", "2">>,        \* -a.22
      <<"-", "3">>,                       \* -3
      <<"+", "b">>,                       \* +b
      <<"r", "c", "1">>,                  \* rc1
      <<".", "p", "o", "s", "t", "1">> }  \* .post1

ComponentSeqs == UNION { [1..n -> ComponentSet] : n \in 1..MaxComponents }

AtomInputs ==
    { sym \o Join(cs, ".") \o suf :
        sym \in SymbolSet, cs \in ComponentSeqs, suf \in SuffixSet }

ListAtoms ==
    { <<>>, <<"*">>,
      <<"1", ".", "0">>,
      <<"0", ".", "*">>,
      <<"^", "1", ".", "0">>,
      <<"~", "1", ".", "2">>,
      <<"^", "a">>,
      <<">", "=", "1", ".", "0">>,
      <<"!", "=", "1", ".", "0", ".", "1">>,
      <<"<", "2">> }

ListInputs ==
    { Join(as, ",") : as \in UNION { [1..n -> ListAtoms] : n \in 2..MaxGroups } }

Inputs == {<<>>} \cup AtomInputs \cup ListInputs

(***************************************************************************)
(* PyProject.convert_version_entry(version_entry), for a str entry, as a   *)
(* state machine: the "*" test and the split, then one step per group of   *)
(* the generator that ",".join consumes, then the join.                    *)
(***************************************************************************)
\* No error raised.
NoError == [type |-> "", what |-> "", keys |-> {}, text |-> <<>>]

\* The conversion's variables before convert_to_pep508 has read anything, at
\* program position at.
ConvAt(at) ==
    /\ cpc = at
    /\ error = NoError
    /\ python_entry = <<>>
    /\ python_version = <<>>
    /\ sources = <<>>
    /\ deps = <<>>
    /\ dev_deps = <<>>
    /\ optional_deps = <<>>
    /\ members = <<>>
    /\ table = <<>>
    /\ cur_deps = <<>>
    /\ cur_members = <<>>
    /\ group_name = <<>>
    /\ group_inputs = <<>>
    /\ n_entries = 0
    /\ n_removed = 0
    /\ completed = {}
    /\ written = FALSE
    /\ pinned_written = FALSE
    /\ out_doc = <<>>

Init ==
    /\ entry \in Inputs
    /\ pc = "start"
    /\ groups = <<>>
    /\ parts = <<>>
    /\ result = NoResult
    /\ ConvAt("idle")

\* if version_entry == "*": return ""
ReturnNoConstraint ==
    /\ pc = "start"
    /\ entry = <<"*">>
    /\ result' = Ok(<<>>)
    /\ pc' = "done"
    /\ UNCHANGED <<entry, groups, parts>>
    /\ UNCHANGED convVars

\* groups = version_entry.split(",")
SplitGroups ==
    /\ pc = "start"
    /\ entry # <<"*">>
    /\ groups' = Split(entry, ",")
    /\ pc' = "convert"
    /\ UNCHANGED <<entry, parts, result>>
    /\ UNCHANGED convVars

\* self.convert_version_constraint(group) returns: the generator yields it.
ConvertGroup ==
    /\ pc = "convert"
    /\ groups # <<>>
    /\ ConvertVersionConstraint(Head(groups)).kind = "ok"
    /\ parts' = Append(parts, ConvertVersionConstraint(Head(groups)).val)
    /\ groups' = Tail(groups)
    /\ UNCHANGED <<entry, pc, result>>
    /\ UNCHANGED convVars

\* self.convert_version_constraint(group) raises: the error leaves
\* convert_version_entry.
RaiseGroup ==
    /\ pc = "convert"
    /\ groups # <<>>
    /\ ConvertVersionConstraint(Head(groups)).kind = "error"
    /\ result' = ConvertVersionConstraint(Head(groups))
    /\ pc' = "done"
    /\ UNCHANGED <<entry, groups, parts>>
    /\ UNCHANGED convVars

\* return ",".join(...)
ReturnJoined ==
    /\ pc = "convert"
    /\ groups = <<>>
    /\ result' = Ok(Join(parts, ","))
    /\ pc' = "done"
    /\ UNCHANGED <<entry, groups, parts>>
    /\ UNCHANGED convVars

Next ==
    \/ ReturnNoConstraint
    \/ SplitGroups
    \/ ConvertGroup
    \/ RaiseGroup
    \/ ReturnJoined

Spec == Init /\ [][Next]_vars

(***************************************************************************)
(* convert_version_entry as a function of a str entry: what the state      *)
(* machine above computes step by step.                                    *)
(***************************************************************************)
RECURSIVE ConvertGroups(_, _)
ConvertGroups(gs, done) ==
    IF gs = <<>> THEN Ok(Join(done, ","))
    ELSE LET r == ConvertVersionConstraint(Head(gs))
         IN  IF r.kind = "error" THEN r
             ELSE ConvertGroups(Tail(gs), Append(done, r.val))

ConvertVersionEntry(version_entry) ==
    IF version_entry = <<"*">> THEN Ok(<<>>)
    ELSE ConvertGroups(Split(version_entry, ","), <<>>)

(***************************************************************************)
(* Vocabulary of the properties.                                           *)
(***************************************************************************)
Done == pc = "done"

IsAtomic(e) == ~Contains(e, ",")

\* A non-empty run of decimal digits.
IsDecimal(c) == c # <<>> /\ \A i \in 1..Len(c) : IsDigit(c[i])

\* Dot-separated decimal integers: 1, 1.2, 0.0.1, ...
IsDottedDecimal(t) ==
    LET cs == Split(t, ".") IN \A i \in 1..Len(cs) : IsDecimal(cs[i])

\* s[from..] (1-based), the empty text when from is past the end.
From(s, from) == SubSeq(s, from, Len(s))

\* The position of the first non-zero component of decimal components cs.
FirstNonzeroPos(cs) ==
    CHOOSE k \in 1..Len(cs) :
        IntOf(cs[k]) # 0 /\ \A j \in 1..(k - 1) : IntOf(cs[j]) = 0

\* The release suffixes a version may carry: none, -a, -a.2, -a.22, -3, +b,
\* rc1, .post1.
IsVersionText(t) ==
    \E n \in 1..Len(t) :
        IsDottedDecimal(SubSeq(t, 1, n)) /\ From(t, n + 1) \in SuffixSet

\* C1 -------------------------------------------------------------------
\* ^c0.c1...cn, every component a decimal integer, at least one non-zero.
IsCaretDecimal(e) ==
    /\ StartsWith(e, "^")
    /\ IsDottedDecimal(Tail(e))
    /\ \E i \in 1..Len(Split(Tail(e), ".")) : IntOf(Split(Tail(e), ".")[i]) # 0

\* >=<original>,<c0. ... .(ck + 1), k the first non-zero component.
CaretExpected(e) ==
    LET cs == Split(Tail(e), ".")
        k == FirstNonzeroPos(cs)
    IN  <<">", "=">> \o Tail(e) \o <<",", "<">>
        \o Join([i \in 1..k |-> IF i = k THEN IntToStr(IntOf(cs[k]) + 1)
                                 ELSE cs[i]], ".")

IsTildeDecimal(e) == StartsWith(e, "~") /\ IsDottedDecimal(Tail(e))

\* The upper bound C2 states: minor incremented and the later components
\* zeroed when 3 or more components are given and the first non-zero one is
\* at index 0 or 1; otherwise only the last component incremented.
TildeExpected(e) ==
    LET cs == Split(Tail(e), ".")
        n == Len(cs)
        minorCase == n >= 3 /\ (IntOf(cs[1]) # 0 \/ IntOf(cs[2]) # 0)
        upper == IF minorCase
                 THEN [i \in 1..n |->
                          IF i = 1 THEN cs[1]
                          ELSE IF i = 2 THEN IntToStr(IntOf(cs[2]) + 1)
                          ELSE <<"0">>]
                 ELSE [cs EXCEPT ![n] = IntToStr(IntOf(cs[n]) + 1)]
    IN  <<">", "=">> \o Tail(e) \o <<",", "<">> \o Join(upper, ".")

\* C2: a tilde constraint with decimal components translates to
\* >=<original>,<<upper> with the upper bound of TildeExpected.
C2_TildeUpperBound ==
    Done /\ IsTildeDecimal(entry) => result = Ok(TildeExpected(entry))

\* C3 -------------------------------------------------------------------
\* -tag: a dash and word characters, the first of them not a digit.
IsPreReleaseTag(t) ==
    /\ Len(t) >= 2
    /\ t[1] = "-"
    /\ ~IsDigit(t[2])
    /\ \A i \in 2..Len(t) : IsWordChar(t[i])

\* A dotted decimal version, optionally followed by a -tag.
IsBareEquality(v) ==
    \E n \in 1..Len(v) :
        /\ IsDottedDecimal(SubSeq(v, 1, n))
        /\ (n = Len(v) \/ IsPreReleaseTag(From(v, n + 1)))

\* C3: a bare version v, and =v, translate to ==v.
C3_BareEquality ==
    Done =>
        /\ (IsBareEquality(entry) => result = Ok(<<"=", "=">> \o entry))
        /\ (StartsWith(entry, "=") /\ IsBareEquality(Tail(entry))
               => result = Ok(<<"=", "=">> \o Tail(entry)))

\* C4 -------------------------------------------------------------------
\* N.*, N.M.*, N.M.P.*
IsWildcardForm(e) ==
    /\ Len(e) >= 3
    /\ From(e, Len(e) - 1) = <<".", "*">>
    /\ IsDottedDecimal(SubSeq(e, 1, Len(e) - 2))
    /\ Len(Split(SubSeq(e, 1, Len(e) - 2), ".")) <= 3

\* C4: a wildcard form translates to == and the same literal; * translates
\* to the empty string.
C4_Wildcard ==
    Done =>
        /\ (IsWildcardForm(entry) => result = Ok(<<"=", "=">> \o entry))
        /\ (entry = <<"*">> => result = Ok(<<>>))

\* C5 -------------------------------------------------------------------
StandardOperators ==
    { <<"=", "=">>, <<"!", "=">>, <<"<">>, <<"<", "=">>, <<">">>, <<">", "=">> }

\* A standard operator followed by a version.
IsStandardAtom(g) ==
    \E op \in StandardOperators :
        /\ Len(g) > Len(op)
        /\ SubSeq(g, 1, Len(op)) = op
        /\ IsVersionText(From(g, Len(op) + 1))

\* C5: an entry whose sub-constraints all start with a standard operator
\* followed by a version is returned unchanged.
C5_PassThrough ==
    Done /\ (\A i \in 1..Len(Split(entry, ",")) :
                IsStandardAtom(Split(entry, ",")[i]))
        => result = Ok(entry)

\* C6 -------------------------------------------------------------------
\* C6: the translation of a comma list of two or more sub-constraints, each
\* of which translates when given alone, is the translations of the
\* sub-constraints given alone, joined by commas in order.
C6_CommaDistributes ==
    LET as == Split(entry, ",")
    IN  Done /\ Len(as) >= 2
             /\ (\A i \in 1..Len(as) : ConvertVersionEntry(as[i]).kind = "ok")
        => result = Ok(Join([i \in 1..Len(as) |->
                                ConvertVersionEntry(as[i]).val], ","))

\* C7 -------------------------------------------------------------------
\* Dot-separated decimal integers, optionally followed by a suffix: text
\* that starts with a dash, or one of the release suffixes of the inputs.
IsNumericWithSuffix(t) ==
    \E n \in 1..Len(t) :
        /\ IsDottedDecimal(SubSeq(t, 1, n))
        /\ \/ n = Len(t)
           \/ t[n + 1] = "-"
           \/ From(t, n + 1) \in SuffixSet

\* C7: an atomic constraint that starts with ~ or ^ and whose remaining text
\* is not dot-separated decimal integers with an optional suffix raises
\* "Invalid version constraint: <the constraint>".
C7_MalformedRaises ==
    Done /\ IsAtomic(entry)
         /\ (StartsWith(entry, "~") \/ StartsWith(entry, "^"))
         /\ ~IsNumericWithSuffix(Tail(entry))
        => result = InvalidConstraint(entry)

\* C8 -------------------------------------------------------------------
\* C8: every error raised is "Invalid version constraint: <text>", the text
\* being a sub-constraint of the entry.
C8_OnlyInvalidConstraint ==
    Done /\ result.kind = "error"
        => /\ result.err = "InvalidConstraint"
           /\ \E i \in 1..Len(Split(entry, ",")) :
                 Split(entry, ",")[i] = result.val

\* C9 -------------------------------------------------------------------
\* The leading run of the characters = ^ ~
LeadingSymbol(e) == SubSeq(e, 1, RunLength(e, 1, SymbolChars, TRUE))

\* C9: an atomic constraint (a leading symbol and a dotted version) whose leading
\* symbol is none of "", =, ^, ~, == raises
\* "Invalid version constraint: <the constraint>".
C9_OtherSymbolRaises ==
    Done /\ IsAtomic(entry)
         /\ LeadingSymbol(entry) \notin
               { <<>>, <<"=">>, <<"^">>, <<"~">>, <<"=", "=">> }
         /\ IsDottedDecimal(From(entry, Len(LeadingSymbol(entry)) + 1))
        => result = InvalidConstraint(entry)

\* C10 ------------------------------------------------------------------
\* The text of a result up to its first comma.
LowerBound(s) == Split(s, ",")[1]

\* C10: the result of a caret or tilde constraint starts with >= followed by
\* exactly the version text given after the symbol.
C10_LowerBoundVerbatim ==
    Done /\ IsAtomic(entry)
         /\ (StartsWith(entry, "~") \/ StartsWith(entry, "^"))
         /\ IsVersionText(Tail(entry))
         /\ result.kind = "ok"
        => LowerBound(result.val) = <<">", "=">> \o Tail(entry)

\* C15 ------------------------------------------------------------------
\* ^0, ^0.0, ^0.0.0: a caret constraint whose decimal components are all zero.
IsCaretAllZero(e) ==
    /\ StartsWith(e, "^")
    /\ IsDottedDecimal(Tail(e))
    /\ \A i \in 1..Len(Split(Tail(e), ".")) : IntOf(Split(Tail(e), ".")[i]) = 0

\* C15: an all-zero caret constraint translates to >=<original>,< followed by
\* the given components with the last one replaced by 1.
C15_CaretAllZero ==
    LET cs == Split(Tail(entry), ".")
    IN  Done /\ IsCaretAllZero(entry)
        => result = Ok(<<">", "=">> \o Tail(entry) \o <<",", "<">>
                       \o Join([cs EXCEPT ![Len(cs)] = <<"1">>], "."))

\* C16 ------------------------------------------------------------------
\* The patch component c-N (a decimal, a dash, a decimal tail), or <<>>.
PatchParts(comp) == IF Contains(comp, "-") THEN Split(comp, "-") ELSE <<>>

\* ^0.0.c-N or ~0.0.c-N with c non-zero: the component to increment is the
\* patch, and it carries a pre-release suffix with a numeric tail.
IsPatchPreRelease(e) ==
    /\ StartsWith(e, "^") \/ StartsWith(e, "~")
    /\ LET cs == Split(Tail(e), ".")
       IN  /\ Len(cs) = 3
           /\ IsDecimal(cs[1]) /\ IntOf(cs[1]) = 0
           /\ IsDecimal(cs[2]) /\ IntOf(cs[2]) = 0
           /\ Len(PatchParts(cs[3])) = 2
           /\ IsDecimal(PatchParts(cs[3])[1]) /\ IntOf(PatchParts(cs[3])[1]) # 0
           /\ IsDecimal(PatchParts(cs[3])[2])

\* C16: such a constraint translates to >=<original>,<0.0.c-(N + 1).
C16_PreReleaseIncrement ==
    LET cs == Split(Tail(entry), ".")
        pp == PatchParts(cs[3])
    IN  Done /\ IsPatchPreRelease(entry)
        => result = Ok(<<">", "=">> \o Tail(entry) \o <<",", "<">>
                       \o Join(<<cs[1], cs[2],
                                 pp[1] \o <<"-">> \o IntToStr(IntOf(pp[2]) + 1)>>,
                               "."))

(***************************************************************************)
(* The conversion of a document: convert_to_pep508, convert_deps_list and  *)
(* handle_git_entry.                                                       *)
(*                                                                         *)
(* A dependency entry is a name (a str) and a value: a str                 *)
(* [kind |-> "str", text |-> ...] or a table [kind |-> "dict", map |-> m], *)
(* m a function from the table's keys to their values.  A value that is an *)
(* Array (several constraints for one name) is not modelled.               *)
(***************************************************************************)

\* dict helpers: "k in d", the dict after d.pop(k), and the dict restricted
\* to the keys ks.
Has(d, k) == k \in DOMAIN d

Pop(d, k) == [x \in DOMAIN d \ {k} |-> d[x]]

Restrict(d, ks) == [x \in DOMAIN d \cap ks |-> d[x]]

\* {k: v}
Single(k, v) == [x \in {k} |-> v]

\* d[k] = v
Put(d, k, v) == [x \in DOMAIN d \cup {k} |-> IF x = k THEN v ELSE d[x]]

\* s.rfind(c), 1-based; 0 when c is not in s.
LastIndex(s, c) == Max({0} \cup {i \in 1..Len(s) : s[i] = c})

\* os.path.basename(p)
BaseName(p) == From(p, LastIndex(p, "/") + 1)

\* os.path.splitext(b)[0] for a name b without "/": the extension starts at
\* the last dot, unless only dots come before it.
SplitExtRoot(b) ==
    LET dot == LastIndex(b, ".")
    IN  IF dot > 0 /\ \E i \in 1..(dot - 1) : b[i] # "."
        THEN SubSeq(b, 1, dot - 1)
        ELSE b

\* s.rstrip(c)
RStrip(s, c) ==
    SubSeq(s, 1, Max({0} \cup {i \in 1..Len(s) : s[i] # c}))

\* PyProject.git_source_keys
GitSourceKeys == {"git", "rev", "tag", "branch"}

\* The errors convert_to_pep508 can end with.
\* NotImplementedError("Can not handle duped sources with name <name>!...")
DupedSources(name) ==
    [type |-> "NotImplementedError", what |-> "duped sources",
     keys |-> {}, text |-> name]

\* NotImplementedError("Remaining key(s) in deps entry: <keys>")
RemainingKeys(ks) ==
    [type |-> "NotImplementedError", what |-> "remaining keys",
     keys |-> ks, text |-> <<>>]

\* A ValueError of convert_version_entry, with the text its message quotes.
ConstraintError(r) ==
    [type |-> "ValueError", what |-> r.err, keys |-> {}, text |-> r.val]

\* KeyError, TypeError, tomlkit's NonExistentKey, OSError
OtherError(type, what) ==
    [type |-> type, what |-> what, keys |-> {}, text |-> <<>>]

(***************************************************************************)
(* PyProject.handle_git_entry(git_entry), on the sources table srcs:       *)
(* whether it raised, the package name, and the sources table after it.    *)
(***************************************************************************)
\* os.path.splitext(os.path.basename(git_entry["git"]))[0]
GitPackageName(git_entry) == SplitExtRoot(BaseName(git_entry["git"]))

\* A handle_git_entry that registers the source whatever self.sources holds.
HandleGitEntryUnchecked(git_entry, srcs) ==
    [raised |-> FALSE, name |-> GitPackageName(git_entry),
     sources |-> Put(srcs, GitPackageName(git_entry),
                     Restrict(git_entry, GitSourceKeys))]

HandleGitEntry(git_entry, srcs) ==
    LET package_name == GitPackageName(git_entry)
    IN  IF Has(srcs, package_name)
        THEN [raised |-> TRUE, name |-> package_name, sources |-> srcs]
        ELSE [raised |-> FALSE, name |-> package_name,
              sources |-> Put(srcs, package_name,
                              Restrict(git_entry, GitSourceKeys))]

(***************************************************************************)
(* PyProject.get_package_name_from_path_dependency(dependency_rel_path).   *)
(* The projects on disk: the one at l/c has a pyproject.toml with          *)
(* project.name = "b"; the others have none.                               *)
(***************************************************************************)
ProjectNameOnDisk(dependency_rel_path) ==
    IF dependency_rel_path = <<"l", "/", "c">> THEN <<"b">> ELSE <<>>

PackageNameFromPath(dependency_rel_path) ==
    IF ProjectNameOnDisk(dependency_rel_path) # <<>>
    THEN ProjectNameOnDisk(dependency_rel_path)
    ELSE BaseName(RStrip(dependency_rel_path, "/"))

(***************************************************************************)
(* PyProject.convert_deps_list: the body of the loop for one entry.  The   *)
(* loop state x is [map, deps, members, sources, vers, err]: what is left  *)
(* of dep_map, the deps and members arrays, self.sources, the version      *)
(* string, and the error raised (NoError while none is).                   *)
(***************************************************************************)
PythonName == <<"p", "y", "t", "h", "o", "n">>

\* if "git" in dep_map: ...; continue
GitStep(x) ==
    LET h == HandleGitEntry(x.map, x.sources)
    IN  IF h.raised THEN [x EXCEPT !.err = DupedSources(h.name)]
        ELSE [x EXCEPT !.sources = h.sources, !.deps = Append(x.deps, h.name)]

\* if "url" in dep_map: ...
UrlStep(name, x) ==
    IF Has(x.map, "url")
    THEN [x EXCEPT !.map = Pop(x.map, "url"),
                   !.sources = Put(x.sources, name, Single("url", x.map["url"])),
                   !.deps = Append(x.deps, name)]
    ELSE x

\* if "path" in dep_map: ...
PathStep(x) ==
    IF Has(x.map, "path")
    THEN LET member == x.map["path"]
             member_name == PackageNameFromPath(member)
         IN  [x EXCEPT !.map = Pop(Pop(x.map, "path"), "develop"),
                       !.members = Append(x.members, member),
                       !.deps = Append(x.deps, member_name),
                       !.sources = Put(x.sources, member_name, Single("path", member))]
    ELSE x

\* sep.join(pieces) for a separator text sep
RECURSIVE JoinText(_, _)
JoinText(pieces, sep) ==
    IF pieces = <<>> THEN <<>>
    ELSE IF Len(pieces) = 1 THEN pieces[1]
    ELSE pieces[1] \o sep \o JoinText(Tail(pieces), sep)

\* str(extras).replace("'", ""): [e1, e2, ...]
ExtrasStr(extras) == <<"[">> \o JoinText(extras, <<",", " ">>) \o <<"]">>

\* vers = ""; if "extras" in dep_map: vers = str(dep_map.pop("extras"))...
ExtrasStep(x) ==
    IF Has(x.map, "extras")
    THEN [x EXCEPT !.map = Pop(x.map, "extras"),
                   !.vers = ExtrasStr(x.map["extras"])]
    ELSE [x EXCEPT !.vers = <<>>]

\* vers = f"{vers}{converted_version}", or the exception of
\* convert_version_entry, whose outcome is r
WithVersion(x, r) ==
    IF r.kind = "error"
    THEN [x EXCEPT !.map = Pop(x.map, "version"), !.err = ConstraintError(r)]
    ELSE [x EXCEPT !.map = Pop(x.map, "version"), !.vers = x.vers \o r.val]

\* if "version" in dep_map: vers = f"{vers}{convert_version_entry(...)}"
VersionStep(x) ==
    IF Has(x.map, "version")
    THEN WithVersion(x, ConvertVersionEntry(x.map["version"]))
    ELSE x

\* optional = dep_map.pop("optional", False)
\* if vers and not optional: deps.append(f"{name}{vers}")
AppendStep(name, x) ==
    LET optional == IF Has(x.map, "optional") THEN x.map["optional"] ELSE FALSE
    IN  [x EXCEPT !.map = Pop(x.map, "optional"),
                  !.deps = IF x.vers # <<>> /\ ~optional
                           THEN Append(x.deps, name \o x.vers)
                           ELSE x.deps]

\* if dep_map: raise NotImplementedError("Remaining keys in deps entry: ...")
RemainingStep(x) ==
    IF DOMAIN x.map # {} THEN [x EXCEPT !.err = RemainingKeys(DOMAIN x.map)]
    ELSE x

\* The statements of the isinstance(dep_v, dict) branch after the git case,
\* in the order of the code.
DictSteps == <<"url", "path", "extras", "version", "append", "remaining">>

DictStep(step, name, x) ==
    CASE step = "url" -> UrlStep(name, x)
      [] step = "path" -> PathStep(x)
      [] step = "extras" -> ExtrasStep(x)
      [] step = "version" -> VersionStep(x)
      [] step = "append" -> AppendStep(name, x)
      [] step = "remaining" -> RemainingStep(x)

\* The statements from the i-th on; none is run once one has raised.
RECURSIVE RunDictSteps(_, _, _)
RunDictSteps(name, x, i) ==
    IF i > Len(DictSteps) \/ x.err # NoError THEN x
    ELSE RunDictSteps(name, DictStep(DictSteps[i], name, x), i + 1)

\* The isinstance(dep_v, dict) branch.
ConvertDictEntry(name, x) ==
    IF Has(x.map, "git") THEN GitStep(x)
    ELSE RunDictSteps(name, x, 1)

\* deps.append(f"{name}{dep_v}"), or the exception of convert_version_entry,
\* whose outcome is r
WithString(name, x, r) ==
    IF r.kind = "error" THEN [x EXCEPT !.err = ConstraintError(r)]
    ELSE [x EXCEPT !.deps = Append(x.deps, name \o r.val)]

\* elif dep_v:  (a non-empty str)
ConvertStringEntry(name, text, x) ==
    IF text = <<>> THEN x
    ELSE WithString(name, x, ConvertVersionEntry(text))

\* One iteration of  for name, dep_v in deps_list.items()  on the arrays
\* deps and members and on self.sources.
ConvertDepsEntry(e, ds, ms, srcs) ==
    LET x == [map |-> IF e.value.kind = "dict" THEN e.value.map ELSE <<>>,
              deps |-> ds, members |-> ms, sources |-> srcs,
              vers |-> <<>>, err |-> NoError]
    IN  IF e.name = PythonName THEN x
        ELSE IF e.value.kind = "dict" THEN ConvertDictEntry(e.name, x)
        ELSE ConvertStringEntry(e.name, e.value.text, x)

(***************************************************************************)
(* The documents: the entries a dependency table may hold.                 *)
(***************************************************************************)
Merge(a, b) ==
    [k \in DOMAIN a \cup DOMAIN b |-> IF k \in DOMAIN a THEN a[k] ELSE b[k]]

Str(text) == [kind |-> "str", text |-> text]

Dict(map) == [kind |-> "dict", map |-> map]

GroupNames == { <<"d", "e", "v">>, <<"t">> }

\* x/a.git
GitUrlA == <<"x", "/", "a", ".", "g", "i", "t">>

\* y/a.git, another repository whose package is named a too
GitUrlA2 == <<"y", "/", "a", ".", "g", "i", "t">>

Url1 == <<"u", "1">>

\* a/ holds no pyproject.toml (the package is named a)
PathA == <<"a", "/">>

\* l/c holds a pyproject.toml whose project.name is b
PathC == <<"l", "/", "c">>

Caret10 == <<"^", "1", ".", "0">>

Entry(name, value) == [name |-> name, value |-> value]

StringEntries ==
    { Entry(<<"a">>, Str(Caret10)),
      Entry(<<"b">>, Str(<<"*">>)),
      Entry(<<"a">>, Str(<<"^", "a">>)) }

GitEntries ==
    { Entry(<<"a">>, Dict(Single("git", GitUrlA))),
      Entry(<<"b">>, Dict(Merge(Single("git", GitUrlA2), Single("rev", <<"r">>)))),
      Entry(<<"b">>, Dict(Merge(Single("git", GitUrlA), Single("foo", <<"f">>)))) }

UrlEntries ==
    { Entry(<<"a">>, Dict(Single("url", Url1))),
      Entry(<<"b">>, Dict(Merge(Single("url", Url1), Single("version", Caret10)))) }

PathEntries ==
    { Entry(<<"b">>, Dict(Single("path", PathA))),
      Entry(<<"a">>, Dict(Merge(Single("path", PathC), Single("develop", TRUE)))) }

PlainEntries ==
    { Entry(<<"a">>, Dict(Single("version", <<"*">>))),
      Entry(<<"b">>, Dict(Merge(Single("version", Caret10), Single("optional", TRUE)))),
      Entry(<<"a">>, Dict(Merge(Single("version", Caret10),
                                Single("extras", << <<"x">>, <<"y">> >>)))),
      Entry(<<"b">>, Dict(Merge(Single("version", Caret10), Single("foo", <<"f">>)))) }

\* ^3.8 and ^a
PythonValues == { <<"^", "3", ".", "8">>, <<"^", "a">> }

DepEntries ==
    StringEntries \cup GitEntries \cup UrlEntries \cup PathEntries
    \cup PlainEntries
    \cup { Entry(PythonName, Str(t)) : t \in PythonValues }

\* The names of the entries of a table.
Names(t) == { t[i].name : i \in 1..Len(t) }

(***************************************************************************)
(* PyProject.convert_to_pep508 as a state machine.  cpc is the position in *)
(* it; a table is read entry by entry as convert_deps_list iterates on it. *)
(***************************************************************************)
InitConvert ==
    /\ entry = <<>>
    /\ pc = "idle"
    /\ groups = <<>>
    /\ parts = <<>>
    /\ result = NoResult
    /\ ConvAt("load")

\* The exception leaves convert_to_pep508.
Abort(err) ==
    /\ cpc' = "aborted"
    /\ error' = err

\* Lines 268-284: read and parse the input, take tool.poetry out of it.
\* open(), tomlkit.parse() or tool_data.pop("poetry") may raise.
LoadDocument ==
    /\ cpc = "load"
    /\ \E ok \in BOOLEAN :
          IF ok THEN cpc' = "python" /\ error' = error
          ELSE Abort(OtherError("NonExistentKey", "poetry"))
    /\ UNCHANGED <<python_entry, python_version, sources, deps, dev_deps,
                   optional_deps, members, table, cur_deps, cur_members,
                   group_name, group_inputs, n_entries, n_removed, completed,
                   written, pinned_written, out_doc>>
    /\ UNCHANGED transVars

\* python_version = self.convert_version_entry(dependencies["python"])
ConvertPython ==
    /\ cpc = "python"
    /\ \E present \in BOOLEAN, v \in PythonValues :
       \E r \in {ConvertVersionEntry(v)} :
          IF ~present
          THEN /\ Abort(OtherError("KeyError", "python"))
               /\ UNCHANGED <<python_entry, python_version, completed>>
          ELSE IF r.kind = "error"
          THEN /\ Abort(ConstraintError(r))
               /\ python_entry' = v
               /\ UNCHANGED <<python_version, completed>>
          ELSE /\ cpc' = "main"
               /\ error' = error
               /\ python_entry' = v
               /\ python_version' = r.val
               /\ completed' = completed \cup {"python"}
    /\ UNCHANGED <<sources, deps, dev_deps, optional_deps, members, table,
                   cur_deps, cur_members, group_name, group_inputs, n_entries,
                   n_removed, written, pinned_written, out_doc>>
    /\ UNCHANGED transVars

\* One iteration of the loop of convert_deps_list, on the next entry of the
\* table being converted (the main, the dev or a group's dependencies).
ConvertEntry ==
    /\ cpc \in {"main", "dev", "group"}
    /\ n_entries < MaxEntries
    /\ \E e \in DepEntries :
          /\ e.name \notin Names(table)
          /\ (cpc = "main" /\ e.name = PythonName) => e.value = Str(python_entry)
          /\ \E x \in {ConvertDepsEntry(e, cur_deps, cur_members, sources)} :
                 /\ table' = Append(table, e)
                 /\ cur_deps' = x.deps
                 /\ cur_members' = x.members
                 /\ sources' = x.sources
                 /\ IF x.err # NoError THEN Abort(x.err)
                    ELSE cpc' = cpc /\ error' = error
    /\ n_entries' = n_entries + 1
    /\ UNCHANGED <<python_entry, python_version, deps, dev_deps, optional_deps,
                   members, group_name, group_inputs, n_removed, completed,
                   written, pinned_written, out_doc>>
    /\ UNCHANGED transVars

\* deps, members = self.convert_deps_list(dependencies)
ReturnMainDeps ==
    /\ cpc = "main"
    /\ deps' = cur_deps
    /\ members' = cur_members
    /\ completed' = completed \cup {"main"}
    /\ cpc' = "dev"
    /\ table' = <<>> /\ cur_deps' = <<>> /\ cur_members' = <<>>
    /\ UNCHANGED <<error, python_entry, python_version, sources, dev_deps,
                   optional_deps, group_name, group_inputs, n_entries,
                   n_removed, written, pinned_written, out_doc>>
    /\ UNCHANGED transVars

\* dev_deps, dev_members = self.convert_deps_list(dev_dependencies)
\* members.extend(dev_members)
ReturnDevDeps ==
    /\ cpc = "dev"
    /\ dev_deps' = cur_deps
    /\ members' = members \o cur_members
    /\ completed' = completed \cup {"dev"}
    /\ cpc' = "groups"
    /\ table' = <<>> /\ cur_deps' = <<>> /\ cur_members' = <<>>
    /\ UNCHANGED <<error, python_entry, python_version, sources, deps,
                   optional_deps, group_name, group_inputs, n_entries,
                   n_removed, written, pinned_written, out_doc>>
    /\ UNCHANGED transVars

\* for group_name, group in groups.items(): ... group["dependencies"]
NextGroup ==
    /\ cpc = "groups"
    /\ \E g \in GroupNames \ DOMAIN group_inputs, has_dependencies \in BOOLEAN :
          IF has_dependencies
          THEN cpc' = "group" /\ group_name' = g /\ error' = error
          ELSE Abort(OtherError("KeyError", "dependencies")) /\ group_name' = g
    /\ UNCHANGED <<python_entry, python_version, sources, deps, dev_deps,
                   optional_deps, members, table, cur_deps, cur_members,
                   group_inputs, n_entries, n_removed, completed, written,
                   pinned_written, out_doc>>
    /\ UNCHANGED transVars

\* opt_deps, opt_members = self.convert_deps_list(group["dependencies"])
\* optional_deps[group_name] = opt_deps
ReturnGroupDeps ==
    /\ cpc = "group"
    /\ optional_deps' = Put(optional_deps, group_name, cur_deps)
    /\ group_inputs' = Put(group_inputs, group_name, table)
    /\ cpc' = "groups"
    /\ table' = <<>> /\ cur_deps' = <<>> /\ cur_members' = <<>>
    /\ UNCHANGED <<error, python_entry, python_version, sources, deps,
                   dev_deps, members, group_name, n_entries, n_removed,
                   completed, written, pinned_written, out_doc>>
    /\ UNCHANGED transVars

\* The loop over the groups ends.
EndGroups ==
    /\ cpc = "groups"
    /\ completed' = completed \cup {"groups"}
    /\ cpc' = "authors"
    /\ UNCHANGED <<error, python_entry, python_version, sources, deps,
                   dev_deps, optional_deps, members, table, cur_deps,
                   cur_members, group_name, group_inputs, n_entries,
                   n_removed, written, pinned_written, out_doc>>
    /\ UNCHANGED transVars

\* author_tables = [self.get_author_name_email(author) for author in authors]
\* raises TypeError when the document has no authors (authors is None).
ConvertAuthors ==
    /\ cpc = "authors"
    /\ \E present \in BOOLEAN :
          IF present
          THEN /\ cpc' = "assemble" /\ error' = error
               /\ completed' = completed \cup {"authors"}
          ELSE Abort(OtherError("TypeError", "authors")) /\ completed' = completed
    /\ UNCHANGED <<python_entry, python_version, sources, deps, dev_deps,
                   optional_deps, members, table, cur_deps, cur_members,
                   group_name, group_inputs, n_entries, n_removed, written,
                   pinned_written, out_doc>>
    /\ UNCHANGED transVars

\* optional_deps["dev"] = dev_deps, and the assembly of pep508_data.
Assemble ==
    /\ cpc = "assemble"
    /\ optional_deps' = Put(optional_deps, <<"d", "e", "v">>, dev_deps)
    /\ cpc' = "remove"
    /\ UNCHANGED <<error, python_entry, python_version, sources, deps,
                   dev_deps, members, table, cur_deps, cur_members,
                   group_name, group_inputs, n_entries, n_removed, completed,
                   written, pinned_written, out_doc>>
    /\ UNCHANGED transVars

\* One entry of self.remove_entries: dict_level[key] raises KeyError when a
\* key before the last is missing.  (The entries removed are taken to lie
\* outside project, tool.uv.sources and dependency-groups.)
RemoveEntry ==
    /\ cpc = "remove"
    /\ n_removed < MaxRemoveEntries
    /\ \E found \in BOOLEAN :
          IF found THEN cpc' = cpc /\ error' = error
          ELSE Abort(OtherError("KeyError", "remove_entries"))
    /\ n_removed' = n_removed + 1
    /\ UNCHANGED <<python_entry, python_version, sources, deps, dev_deps,
                   optional_deps, members, table, cur_deps, cur_members,
                   group_name, group_inputs, n_entries, completed, written,
                   pinned_written, out_doc>>
    /\ UNCHANGED transVars

\* The loop over self.remove_entries ends.
EndRemove ==
    /\ cpc = "remove"
    /\ completed' = completed \cup {"remove"}
    /\ cpc' = "write"
    /\ UNCHANGED <<error, python_entry, python_version, sources, deps,
                   dev_deps, optional_deps, members, table, cur_deps,
                   cur_members, group_name, group_inputs, n_entries,
                   n_removed, written, pinned_written, out_doc>>
    /\ UNCHANGED transVars

\* A write of the output file placed before the loop over remove_entries.
WriteOutputBeforeRemove ==
    /\ cpc = "remove"
    /\ written' = TRUE
    /\ out_doc' = [requires_python |-> python_version,
                   dependencies |-> deps,
                   sources |-> sources,
                   dependency_groups |-> optional_deps]
    /\ cpc' = "pinned"
    /\ UNCHANGED <<error, python_entry, python_version, sources, deps,
                   dev_deps, optional_deps, members, table, cur_deps,
                   cur_members, group_name, group_inputs, n_entries,
                   n_removed, completed, pinned_written>>
    /\ UNCHANGED transVars

\* with open(f"{self.project_dir}/{output_file}", "w") as f: tomlkit.dump(...)
WriteOutput ==
    /\ cpc = "write"
    /\ written' = TRUE
    /\ out_doc' = [requires_python |-> python_version,
                   dependencies |-> deps,
                   sources |-> sources,
                   dependency_groups |-> optional_deps]
    /\ cpc' = "pinned"
    /\ UNCHANGED <<error, python_entry, python_version, sources, deps,
                   dev_deps, optional_deps, members, table, cur_deps,
                   cur_members, group_name, group_inputs, n_entries,
                   n_removed, completed, pinned_written>>
    /\ UNCHANGED transVars

\* if exported_reqs: ... extract_from_requirements_txt (open() may raise),
\* optional_deps.clear(), and the write of pyproject_pinned.toml.
WritePinned ==
    /\ cpc = "pinned"
    /\ \E exported_reqs \in {"", "found", "missing"} :
          IF exported_reqs = ""
          THEN /\ cpc' = "done" /\ error' = error
               /\ UNCHANGED <<optional_deps, pinned_written>>
          ELSE IF exported_reqs = "missing"
          THEN /\ Abort(OtherError("OSError", "exported_reqs"))
               /\ UNCHANGED <<optional_deps, pinned_written>>
          ELSE /\ cpc' = "done" /\ error' = error
               /\ optional_deps' = <<>>
               /\ pinned_written' = TRUE
    /\ UNCHANGED <<python_entry, python_version, sources, deps, dev_deps,
                   members, table, cur_deps, cur_members, group_name,
                   group_inputs, n_entries, n_removed, completed, written,
                   out_doc>>
    /\ UNCHANGED transVars

NextConvert ==
    \/ LoadDocument
    \/ ConvertPython
    \/ ConvertEntry
    \/ ReturnMainDeps
    \/ ReturnDevDeps
    \/ NextGroup
    \/ ReturnGroupDeps
    \/ EndGroups
    \/ ConvertAuthors
    \/ Assemble
    \/ RemoveEntry
    \/ EndRemove
    \/ WriteOutput
    \/ WritePinned

SpecConvert == InitConvert /\ [][NextConvert]_vars

(***************************************************************************)
(* Claims about convert_to_pep508 and convert_deps_list.                   *)
(***************************************************************************)
\* The steps that come before the write of the output file.
ConversionSteps == {"python", "main", "dev", "groups", "authors", "remove"}

Aborted == cpc = "aborted"

\* C11: the output file is written only after the python constraint, the
\* main, dev and group dependencies, the authors and the remove-entries have
\* all been processed without error; a run in which one of these steps
\* raised has written nothing (an exception that ends a run after the write
\* comes from the pinned file, which is none of these steps).
C11_AllOrNothing ==
    written =>
        /\ ConversionSteps \subseteq completed
        /\ Aborted => error = OtherError("OSError", "exported_reqs")

\* The output file has been written, with a converted main dependency, a
\* converted group and a processed remove-entry.
C11_Witness ==
    /\ written
    /\ out_doc.dependencies # <<>>
    /\ DOMAIN group_inputs # {}
    /\ n_removed > 0

\* The entry the last iteration of convert_deps_list worked on.
LastEntry == table[Len(table)]

IsGitRecord(e) ==
    e.name # PythonName /\ e.value.kind = "dict" /\ "git" \in DOMAIN e.value.map

\* The basename of the git URL minus its extension: what follows the last
\* "/", up to the last "." after it.
DerivedName(url) ==
    LET base == From(url, Max({0} \cup {i \in 1..Len(url) : url[i] = "/"}) + 1)
        dots == {i \in 2..Len(base) : base[i] = "."}
    IN  IF dots = {} THEN base ELSE SubSeq(base, 1, Max(dots) - 1)

\* The source table a git record registers.
GitSource(m) == [k \in DOMAIN m \cap {"git", "rev", "tag", "branch"} |-> m[k]]

\* An iteration of convert_deps_list takes place.
EntryStep == cpc \in {"main", "dev", "group"} /\ Len(table') = Len(table) + 1

\* C12: the iteration on a git record whose derived package name is already
\* registered ends the conversion with the duped-sources error and leaves
\* the sources as they were; on a git record with a fresh name it registers,
\* under that name, the record's git, rev, tag and branch keys and no other,
\* and leaves the other sources alone.
C12_GitDuplicates ==
    [][EntryStep /\ IsGitRecord(LastEntry') =>
         LET m == LastEntry'.value.map
             name == DerivedName(m["git"])
         IN  IF name \in DOMAIN sources
             THEN /\ cpc' = "aborted"
                  /\ error' = DupedSources(name)
                  /\ sources' = sources
             ELSE /\ cpc' = cpc
                  /\ DOMAIN sources' = DOMAIN sources \cup {name}
                  /\ sources'[name] = GitSource(m)
                  /\ \A n \in DOMAIN sources : sources'[n] = sources[n]]_vars

\* A git record registered a with its git and rev keys, and a later git
\* record whose package is named a too has ended the conversion.
C12_Witness ==
    /\ Aborted
    /\ error = DupedSources(<<"a">>)
    /\ IsGitRecord(LastEntry)
    /\ DOMAIN sources[<<"a">>] = {"git", "rev"}
\* C13 ------------------------------------------------------------------
IsRecord(e) == e.name # PythonName /\ e.value.kind = "dict"

\* version, extras, path, git, rev, tag, branch, url, optional, and develop
\* on a path record
RecognisedKeys(m) ==
    {"version", "extras", "path", "git", "rev", "tag", "branch", "url",
     "optional"}
    \cup (IF "path" \in DOMAIN m THEN {"develop"} ELSE {})

UnrecognisedKeys(m) == DOMAIN m \ RecognisedKeys(m)

\* C13: once convert_deps_list has worked on a record holding a key that is
\* not recognised, the conversion has ended with the remaining-keys error,
\* which names the unrecognised keys.
C13_UnrecognisedKeysFatal ==
    \A i \in 1..Len(table) :
        IsRecord(table[i]) /\ UnrecognisedKeys(table[i].value.map) # {} =>
            /\ Aborted
            /\ error.what = "remaining keys"
            /\ UnrecognisedKeys(table[i].value.map) \subseteq error.keys

\* C14 ------------------------------------------------------------------
IsStringDep(e) == e.name # PythonName /\ e.value.kind = "str" /\ e.value.text # <<>>

Elements(seq) == { seq[i] : i \in 1..Len(seq) }

\* C14: in the output written, dependency-groups has a dev group, and has
\* every group of the input, with the converted form of each of the group's
\* string dependencies in it.
C14_DependencyGroups ==
    written =>
        /\ <<"d", "e", "v">> \in DOMAIN out_doc.dependency_groups
        /\ \A g \in DOMAIN group_inputs :
              /\ g \in DOMAIN out_doc.dependency_groups
              /\ \A i \in 1..Len(group_inputs[g]) :
                    IsStringDep(group_inputs[g][i]) =>
                        group_inputs[g][i].name
                          \o ConvertVersionEntry(group_inputs[g][i].value.text).val
                        \in Elements(out_doc.dependency_groups[g])

\* C17 ------------------------------------------------------------------
\* C17: a source registered under a name stays under that name, as it was
\* registered, through every later step of the conversion.
C17_SourcesNeverReplaced ==
    [][\A n \in DOMAIN sources :
          n \in DOMAIN sources' /\ sources'[n] = sources[n]]_vars

\* C18 ------------------------------------------------------------------
IsOptional(e) ==
    /\ e.value.kind = "dict"
    /\ "optional" \in DOMAIN e.value.map
    /\ e.value.map["optional"]

\* The entries of a table that are to contribute to the dependency list.
Contributing(t) ==
    { i \in 1..Len(t) : t[i].name # PythonName /\ ~IsOptional(t[i]) }

\* C18: while convert_deps_list goes through a table, the dependency list
\* holds one string for each entry gone through that is neither python nor
\* marked optional.
C18_OneStringPerEntry ==
    cpc \in {"main", "dev", "group"} =>
        Len(cur_deps) = Cardinality(Contributing(table))

====
